---- MODULE Spec2Model ----
(***************************************************************************)
(* State-machine model of the retrieval engine of mantuonweb/Generative_AI *)
(* (rag_engine.py, controller.py, server.py): the FAISS index, the two     *)
(* parallel fragment lists, the two on-disk artifacts and the request      *)
(* handlers that mutate them.                                              *)
(***************************************************************************)
EXTENDS Integers, Sequences, FiniteSets, TLC

(***************************************************************************)
(* Bounds and input domains                                                *)
(***************************************************************************)
\* number of fragments stored in one behaviour (the uuid4 values drawn for them)
MaxIds == 2
\* largest number of chunks process_pdf_file yields for one upload
MaxUpload == 2

\* self.dimension of the engine
Dimension == 384

PdfNames == {"A.pdf", "B.pdf"}
OtherNames == {"notes.txt"}
Contents == {"c1", "c2"}
Queries == {"q1", "q2"}

\* top_k of a request that names none (QueryRequest, Field(default=3))
DefaultTopK == 3

\* template_type values: known ones and one unknown
TemplateTypes == {"default", "detailed", "bogus"}
KnownTemplateTypes == {"default", "detailed", "concise"}

\* names a filter list may hold: an uploaded one and one never uploaded
FilterLists == {<< >>, <<"A.pdf">>, <<"C.pdf">>, <<"A.pdf", "C.pdf">>}

\* upper limit of top_k accepted by the request schema (Field(le=...)), cut to
\* what the bounded store can distinguish
TopKs == 1..3

(***************************************************************************)
(* External collaborators                                                  *)
(***************************************************************************)
\* SentenceTransformer.encode: a deterministic text -> vector function.  One
\* integer coordinate stands for the 384 floats.
encode(text) ==
    CASE text = "c1" -> 0
      [] text = "c2" -> 4
      [] text = "q1" -> 1
      [] text = "q2" -> 2
      [] OTHER -> 9

\* faiss.IndexFlatL2(d): an empty flat index of dimension d
IndexFlatL2(d) == [d |-> d, xb |-> << >>]

\* IndexFlatL2.add: appends the vectors at the next positions
index_add(idx, vecs) == [idx EXCEPT !.xb = @ \o vecs]

\* IndexFlatL2.ntotal
ntotal(idx) == Len(idx.xb)

\* squared Euclidean distance used by IndexFlatL2
L2(a, b) == (a - b) * (a - b)

(***************************************************************************)
(* Files.  A file is absent or holds a sequence of items.  Each artifact   *)
(* is taken to be written whole or not at all; an artifact that cannot be  *)
(* read back is covered by the read faults of load_state.                  *)
(***************************************************************************)
NoFile == [exists |-> FALSE, bytes |-> << >>]
File(b) == [exists |-> TRUE, bytes |-> b]

\* faiss.write_index: header (d, ntotal) followed by the stored vectors
write_index(idx) == File(<<idx.d, Len(idx.xb)>> \o idx.xb)

\* faiss.read_index
read_index(f) == [d |-> f.bytes[1], xb |-> SubSeq(f.bytes, 3, 2 + f.bytes[2])]

\* pickle.dump of the dict {'chunks': ..., 'metadata': ...}
pickle_dump(e) == File(<<e.chunks, e.metadata>>)

\* pickle.load
pickle_load(f) == [chunks |-> f.bytes[1], metadata |-> f.bytes[2]]

(***************************************************************************)
(* RAGEngine                                                               *)
(***************************************************************************)
\* RAGEngine.__init__
RAGEngine == [index |-> IndexFlatL2(Dimension), chunks |-> << >>, metadata |-> << >>]

\* add_document with the chunk and its metadata stored before the vector is
\* added
add_document_early_append(e, doc_id, content, filename, fault) ==
    IF fault = "encode"
    THEN [e |-> e, raised |-> TRUE]
    ELSE IF fault = "index_add"
    THEN [e |-> [e EXCEPT !.chunks = Append(@, content),
                          !.metadata = Append(@, [id |-> doc_id,
                                                  filename |-> filename])],
          raised |-> TRUE]
    ELSE [e |-> [index |-> index_add(e.index, <<encode(content)>>),
                 chunks |-> Append(e.chunks, content),
                 metadata |-> Append(e.metadata, [id |-> doc_id, filename |-> filename])],
          raised |-> FALSE]

\* RAGEngine.add_document.  fault names the external call that raises, if any.
\* The result is the engine afterwards and whether the call raised.
add_document(e, doc_id, content, filename, fault) ==
    IF fault = "encode"
    THEN [e |-> e, raised |-> TRUE]
    ELSE IF fault = "index_add"
    THEN [e |-> e, raised |-> TRUE]
    ELSE [e |-> [index |-> index_add(e.index, <<encode(content)>>),
                 chunks |-> Append(e.chunks, content),
                 metadata |-> Append(e.metadata, [id |-> doc_id, filename |-> filename])],
          raised |-> FALSE]

\* clear that replaces the index and the metadata list only
clear_keep_chunks(e) ==
    [index |-> IndexFlatL2(Dimension), chunks |-> e.chunks, metadata |-> << >>]

\* RAGEngine.clear
clear(e) == [index |-> IndexFlatL2(Dimension), chunks |-> << >>, metadata |-> << >>]

\* save_state that writes the fragment file only
save_state_no_index(e, d, fault) ==
    IF fault = "write_index"
    THEN [disk |-> d, raised |-> TRUE]
    ELSE IF fault = "open"
    THEN [disk |-> d, raised |-> TRUE]
    ELSE [disk |-> [d EXCEPT !.pkl = pickle_dump(e)], raised |-> FALSE]

\* RAGEngine.save_state.  The result is the disk afterwards and whether the
\* call raised.  Faults: "write_index": makedirs or faiss.write_index raises,
\* nothing is written; "open": the index file is written and opening the
\* fragment file raises (or the process stops between the two writes).
save_state(e, d, fault) ==
    IF fault = "write_index"
    THEN [disk |-> d, raised |-> TRUE]
    ELSE IF fault = "open"
    THEN [disk |-> [d EXCEPT !.faiss = write_index(e.index)], raised |-> TRUE]
    ELSE [disk |-> [faiss |-> write_index(e.index), pkl |-> pickle_dump(e)],
          raised |-> FALSE]

\* load_state whose failure while reading the fragment file comes after
\* self.chunks was assigned
load_state_chunks_first(e, d, fault) ==
    IF d.pkl.exists /\ d.faiss.exists
    THEN IF fault = "read_index"
         THEN [e |-> e, ret |-> FALSE, raised |-> TRUE]
         ELSE IF fault = "pickle_load"
         THEN [e |-> [e EXCEPT !.index = read_index(d.faiss),
                               !.chunks = pickle_load(d.pkl).chunks],
               ret |-> FALSE, raised |-> TRUE]
         ELSE [e |-> [index |-> read_index(d.faiss),
                      chunks |-> pickle_load(d.pkl).chunks,
                      metadata |-> pickle_load(d.pkl).metadata],
               ret |-> TRUE, raised |-> FALSE]
    ELSE [e |-> e, ret |-> FALSE, raised |-> FALSE]

\* RAGEngine.load_state.  The result is the engine afterwards, the returned
\* value and whether the call raised.  Faults: "read_index": faiss.read_index
\* raises; "pickle_load": opening or unpickling the fragment file raises,
\* after self.index was assigned.
load_state(e, d, fault) ==
    IF d.pkl.exists /\ d.faiss.exists
    THEN IF fault = "read_index"
         THEN [e |-> e, ret |-> FALSE, raised |-> TRUE]
         ELSE IF fault = "pickle_load"
         THEN [e |-> [e EXCEPT !.index = read_index(d.faiss)],
               ret |-> FALSE, raised |-> TRUE]
         ELSE [e |-> [index |-> read_index(d.faiss),
                      chunks |-> pickle_load(d.pkl).chunks,
                      metadata |-> pickle_load(d.pkl).metadata],
               ret |-> TRUE, raised |-> FALSE]
    ELSE [e |-> e, ret |-> FALSE, raised |-> FALSE]

\* Python indexing seq[i] for a 0-based i, negative i counting from the end
PyAt(seq, i) == IF i >= 0 THEN seq[i + 1] ELSE seq[Len(seq) + 1 + i]

\* IndexFlatL2.search(query_vector, k): every label row the index may return:
\* the min(k, ntotal) nearest positions (0-based) in ascending distance, in
\* any order among equal distances, padded with -1 up to k labels.
index_search(idx, qv, k) ==
    LET n == IF k < ntotal(idx) THEN k ELSE ntotal(idx)
        dist(p) == L2(idx.xb[p], qv)
        rows == {r \in [1..n -> 1..ntotal(idx)] :
                    /\ \A i, j \in 1..n : i < j => r[i] # r[j] /\ dist(r[i]) <= dist(r[j])
                    /\ \A p \in 1..ntotal(idx) :
                          (\A i \in 1..n : r[i] # p) =>
                              \A i \in 1..n : dist(r[i]) <= dist(p)}
    IN {[i \in 1..k |-> IF i <= n THEN r[i] - 1 ELSE -1] : r \in rows}

\* distances returned with a label row (-1 labels carry no distance)
label_distance(idx, qv, label) ==
    IF label >= 0 THEN L2(idx.xb[label + 1], qv) ELSE -1

RECURSIVE search_rows(_, _, _, _)
\* the loop of RAGEngine.search over one label row, from position i on
search_rows(e, qv, row, i) ==
    IF i > Len(row) THEN << >>
    ELSE IF row[i] < Len(e.chunks)
         THEN <<[id |-> PyAt(e.metadata, row[i]).id,
                 filename |-> PyAt(e.metadata, row[i]).filename,
                 content |-> PyAt(e.chunks, row[i]),
                 distance |-> label_distance(e.index, qv, row[i])]>>
              \o search_rows(e, qv, row, i + 1)
         ELSE search_rows(e, qv, row, i + 1)

\* RAGEngine.search: the set of result lists the call may return
search(e, query, top_k) ==
    IF e.chunks = << >> THEN {<< >>}
    ELSE LET k == IF top_k < Len(e.chunks) THEN top_k ELSE Len(e.chunks)
         IN {search_rows(e, encode(query), row, 1) :
                row \in index_search(e.index, encode(query), k)}

\* the external calls one call made: SentenceTransformer.encode,
\* IndexFlatL2.search and ollama.generate
NoCalls == [encode |-> 0, index_search |-> 0, generate |-> 0]

\* the external calls RAGEngine.search makes: none on an empty chunk list, else
\* one encode and one index search
search_calls(e) ==
    IF e.chunks = << >> THEN NoCalls
    ELSE [encode |-> 1, index_search |-> 1, generate |-> 0]

\* the number of characters of a text (a chunk holds up to 500 words; the last
\* chunk of a document may be short)
CharLen(text) ==
    CASE text = "c1" -> 120
      [] text = "c2" -> 2600
      [] OTHER -> 2

\* text[:n]: the text and how many of its characters are kept
Prefix(text, n) ==
    [of |-> text, chars |-> IF CharLen(text) < n THEN CharLen(text) ELSE n]

\* the slice bound of the source previews of generate_answer
SourceChars == 200

\* generate_answer: r['content'][:200] + '...'
source_preview(content) == [head |-> Prefix(content, SourceChars), tail |-> "..."]

\* generate_answer: the prompt, the fixed template text filled with the joined
\* contents of the results and the query
build_prompt(query, results) ==
    [template |-> "Based on the following context, answer the question.",
     context |-> [i \in 1..Len(results) |-> results[i].content],
     query |-> query]

\* ollama.generate(model, prompt)['response']: a text determined by the prompt
ollama_generate(prompt) == [text |-> "response", prompt |-> prompt]

\* the value of a call that raised
NoResult == [raised |-> TRUE]

\* generate_answer: f"Error generating answer: {str(e)}"
GenerationError == [text |-> "Error generating answer"]

\* the answer returned when the search yields nothing
NoRelevantInformation ==
    [answer |-> [text |-> "No relevant information found in the documents."],
     sources |-> << >>]

\* generate_answer that calls ollama before it looks at the results
generate_answer_always_generates(e, query, top_k, fault) ==
    IF fault = "encode" /\ e.chunks # << >>
    THEN {[e |-> e, exc |-> "Exception", ret |-> NoResult,
           calls |-> [NoCalls EXCEPT !.encode = 1]]}
    ELSE {[e |-> e, exc |-> "none",
           ret |-> IF results = << >>
                   THEN NoRelevantInformation
                   ELSE [answer |-> IF fault = "generate"
                                    THEN GenerationError
                                    ELSE ollama_generate(build_prompt(query, results)),
                         sources |-> [i \in 1..Len(results) |->
                                         source_preview(results[i].content)],
                         num_sources |-> Len(results)],
           calls |-> [search_calls(e) EXCEPT !.generate = 1]] :
                results \in search(e, query, top_k)}

\* generate_answer without the try/except around ollama.generate
generate_answer_no_try(e, query, top_k, fault) ==
    IF fault = "encode" /\ e.chunks # << >>
    THEN {[e |-> e, exc |-> "Exception", ret |-> NoResult,
           calls |-> [NoCalls EXCEPT !.encode = 1]]}
    ELSE {IF results = << >>
          THEN [e |-> e, exc |-> "none", ret |-> NoRelevantInformation,
                calls |-> search_calls(e)]
          ELSE IF fault = "generate"
          THEN [e |-> e, exc |-> "Exception", ret |-> NoResult,
                calls |-> [search_calls(e) EXCEPT !.generate = 1]]
          ELSE [e |-> e, exc |-> "none",
                ret |-> [answer |-> ollama_generate(build_prompt(query, results)),
                         sources |-> [i \in 1..Len(results) |->
                                         source_preview(results[i].content)],
                         num_sources |-> Len(results)],
                calls |-> [search_calls(e) EXCEPT !.generate = 1]] :
                results \in search(e, query, top_k)}

\* RAGEngine.generate_answer(query, top_k): the set of outcomes of the call,
\* one per result list search may return.  Faults: "encode": the encode call
\* of search raises and the exception propagates; "generate": ollama.generate
\* raises (or its response has no 'response' key) inside the try.
generate_answer(e, query, top_k, fault) ==
    IF fault = "encode" /\ e.chunks # << >>
    THEN {[e |-> e, exc |-> "Exception", ret |-> NoResult,
           calls |-> [NoCalls EXCEPT !.encode = 1]]}
    ELSE {IF results = << >>
          THEN [e |-> e, exc |-> "none", ret |-> NoRelevantInformation,
                calls |-> search_calls(e)]
          ELSE [e |-> e, exc |-> "none",
                ret |-> [answer |-> IF fault = "generate"
                                    THEN GenerationError
                                    ELSE ollama_generate(build_prompt(query, results)),
                         sources |-> [i \in 1..Len(results) |->
                                         source_preview(results[i].content)],
                         num_sources |-> Len(results)],
                calls |-> [search_calls(e) EXCEPT !.generate = 1]] :
                results \in search(e, query, top_k)}

(***************************************************************************)
(* RAGController                                                           *)
(***************************************************************************)
\* RAGController.get_document_list (a list built from a set: order is not
\* significant)
get_document_list(e) == {e.metadata[i].filename : i \in 1..Len(e.metadata)}

\* RAGController.get_stats
get_stats(e) ==
    [total_chunks |-> Len(e.chunks),
     total_documents |-> Cardinality({e.metadata[i].filename : i \in 1..Len(e.metadata)}),
     index_size |-> ntotal(e.index)]

RECURSIVE get_document_details_from(_, _, _)
\* the loop of get_document_details from the i-th metadata entry on: doc_info
\* keeps one entry per filename, in order of first occurrence
get_document_details_from(e, i, doc_info) ==
    IF i > Len(e.metadata) THEN doc_info
    ELSE LET filename == e.metadata[i].filename
             opened == IF \E k \in 1..Len(doc_info) : doc_info[k].filename = filename
                       THEN doc_info
                       ELSE Append(doc_info, [filename |-> filename, chunk_count |-> 0])
             k == CHOOSE k \in 1..Len(opened) : opened[k].filename = filename
         IN get_document_details_from(e, i + 1,
                                      [opened EXCEPT ![k].chunk_count = @ + 1])

\* get_document_details that opens an entry for every metadata entry
get_document_details_per_chunk(e) ==
    [i \in 1..Len(e.metadata) |->
        [filename |-> e.metadata[i].filename, chunk_count |-> 1]]

\* RAGController.get_document_details
get_document_details(e) ==
    IF e.metadata = << >> THEN << >> ELSE get_document_details_from(e, 1, << >>)

RECURSIVE chunks_of(_, _, _)
\* the comprehension of get_document_chunks over zip(metadata, chunks), from
\* position i on
chunks_of(e, filename, i) ==
    IF i > Len(e.metadata) \/ i > Len(e.chunks) THEN << >>
    ELSE IF e.metadata[i].filename = filename
         THEN <<[id |-> e.metadata[i].id,
                 content |-> e.chunks[i],
                 preview |-> IF CharLen(e.chunks[i]) > SourceChars
                             THEN source_preview(e.chunks[i])
                             ELSE [head |-> Prefix(e.chunks[i], CharLen(e.chunks[i])),
                                   tail |-> ""]]>>
              \o chunks_of(e, filename, i + 1)
         ELSE chunks_of(e, filename, i + 1)

\* RAGController.get_document_chunks
get_document_chunks(e, filename) ==
    LET chunks == chunks_of(e, filename, 1)
    IN IF chunks = << >>
       THEN [e |-> e, exc |-> "ValueError", ret |-> NoResult]
       ELSE [e |-> e, exc |-> "none",
             ret |-> [filename |-> filename, chunk_count |-> Len(chunks),
                      chunks |-> chunks]]

\* TemplateManager.get
TemplateManager_get(template_type) ==
    CASE template_type = "default" -> "DEFAULT"
      [] template_type = "detailed" -> "DETAILED"
      [] template_type = "concise" -> "CONCISE"
      [] OTHER -> "DEFAULT"

\* the parameters RAGEngine.generate_answer declares after self
generate_answer_parameters == <<"query", "top_k">>

\* filter_filenames: None, or a list of names
NoFilter == [given |-> FALSE, names |-> << >>]
FilterList(names) == [given |-> TRUE, names |-> names]

\* the names of a filter list that get_document_list does not hold
invalid_docs(e, filter_filenames) ==
    SelectSeq(filter_filenames.names, LAMBDA f : f \notin get_document_list(e))

\* query_documents without the validation of filter_filenames
query_documents_no_validation(e, query, top_k, template_type, filter_filenames, fault) ==
    IF Len(e.chunks) = 0
    THEN {[e |-> e, exc |-> "ValueError", msg |-> "No documents uploaded yet",
           ret |-> NoResult, calls |-> NoCalls]}
    ELSE IF Len(<<query, top_k, template_type, filter_filenames>>)
               > Len(generate_answer_parameters)
    THEN {[e |-> e, exc |-> "TypeError",
           msg |-> "generate_answer() takes from 2 to 3 positional arguments",
           ret |-> NoResult, calls |-> NoCalls]}
    ELSE {[e |-> r.e, exc |-> r.exc, msg |-> "", ret |-> r.ret, calls |-> r.calls] :
             r \in generate_answer(e, query, top_k, fault)}

\* query_documents that resets the engine when it finds no chunks
query_documents_reset_on_empty(e, query, top_k, template_type, filter_filenames, fault) ==
    IF Len(e.chunks) = 0
    THEN {[e |-> clear(e), exc |-> "ValueError", msg |-> "No documents uploaded yet",
           ret |-> NoResult, calls |-> NoCalls]}
    ELSE IF filter_filenames.given /\ filter_filenames.names # << >>
            /\ invalid_docs(e, filter_filenames) # << >>
    THEN {[e |-> e, exc |-> "ValueError", msg |-> "Documents not found",
           ret |-> NoResult, calls |-> NoCalls]}
    ELSE IF Len(<<query, top_k, template_type, filter_filenames>>)
               > Len(generate_answer_parameters)
    THEN {[e |-> e, exc |-> "TypeError",
           msg |-> "generate_answer() takes from 2 to 3 positional arguments",
           ret |-> NoResult, calls |-> NoCalls]}
    ELSE {[e |-> r.e, exc |-> r.exc, msg |-> "", ret |-> r.ret, calls |-> r.calls] :
             r \in generate_answer(e, query, top_k, fault)}

\* RAGController.query_documents: the set of outcomes of the call.  The call
\* of line 50 passes query, top_k, template_type and filter_filenames to
\* RAGEngine.generate_answer, which declares query and top_k: Python raises
\* TypeError before the body of generate_answer runs.
query_documents(e, query, top_k, template_type, filter_filenames, fault) ==
    IF Len(e.chunks) = 0
    THEN {[e |-> e, exc |-> "ValueError", msg |-> "No documents uploaded yet",
           ret |-> NoResult, calls |-> NoCalls]}
    ELSE IF filter_filenames.given /\ filter_filenames.names # << >>
            /\ invalid_docs(e, filter_filenames) # << >>
    THEN {[e |-> e, exc |-> "ValueError", msg |-> "Documents not found",
           ret |-> NoResult, calls |-> NoCalls]}
    ELSE IF Len(<<query, top_k, template_type, filter_filenames>>)
               > Len(generate_answer_parameters)
    THEN {[e |-> e, exc |-> "TypeError",
           msg |-> "generate_answer() takes from 2 to 3 positional arguments",
           ret |-> NoResult, calls |-> NoCalls]}
    ELSE {[e |-> r.e, exc |-> r.exc, msg |-> "", ret |-> r.ret, calls |-> r.calls] :
             r \in generate_answer(e, query, top_k, fault)}

RECURSIVE surviving(_, _, _)
\* the filter loop of delete_document over zip(metadata, chunks): the
\* positions, in order, whose filename differs from the deleted one
surviving(e, filename, i) ==
    IF i > Len(e.metadata) \/ i > Len(e.chunks) THEN << >>
    ELSE IF e.metadata[i].filename # filename
         THEN <<i>> \o surviving(e, filename, i + 1)
         ELSE surviving(e, filename, i + 1)

new_chunks(e, filename) ==
    LET keep == surviving(e, filename, 1)
    IN [j \in 1..Len(keep) |-> e.chunks[keep[j]]]

new_metadata(e, filename) ==
    LET keep == surviving(e, filename, 1)
    IN [j \in 1..Len(keep) |-> e.metadata[keep[j]]]

\* delete_document without the membership test of lines 107-108
delete_document_unchecked(e, d, filename) ==
    [e |-> [e EXCEPT !.chunks = new_chunks(e, filename),
                     !.metadata = new_metadata(e, filename)],
     disk |-> d, exc |-> "NameError"]

\* delete_document that replaces the chunk list only
delete_document_keep_metadata(e, d, filename) ==
    IF filename \notin get_document_list(e)
    THEN [e |-> e, disk |-> d, exc |-> "ValueError"]
    ELSE [e |-> [e EXCEPT !.chunks = new_chunks(e, filename)],
          disk |-> d, exc |-> "NameError"]

\* RAGController.delete_document.  controller.py imports neither faiss nor
\* numpy, so after the two list assignments the evaluation of
\* faiss.IndexFlatL2 raises NameError: the index is not rebuilt and
\* save_state is not reached.
delete_document(e, d, filename) ==
    IF filename \notin get_document_list(e)
    THEN [e |-> e, disk |-> d, exc |-> "ValueError"]
    ELSE [e |-> [e EXCEPT !.chunks = new_chunks(e, filename),
                          !.metadata = new_metadata(e, filename)],
          disk |-> d, exc |-> "NameError"]

\* RAGController.clear_all: RAGEngine.clear, no save
clear_all(e, d) == [e |-> clear(e), disk |-> d, exc |-> "none"]

NoFault == [site |-> "none", j |-> 0]

RECURSIVE add_all(_, _, _, _, _, _)
\* the loop of upload_pdf: one uuid4 and one add_document per chunk, from the
\* j-th chunk on; stops at the first add_document that raises
add_all(e, ids, chunk_list, filename, fault, j) ==
    IF j > Len(chunk_list) THEN [e |-> e, raised |-> FALSE]
    ELSE LET r == add_document(e, ids[j], chunk_list[j], filename,
                               IF fault.j = j THEN fault.site ELSE "none")
         IN IF r.raised THEN [e |-> r.e, raised |-> TRUE]
            ELSE add_all(r.e, ids, chunk_list, filename, fault, j + 1)

\* RAGController.upload_pdf.  chunk_list is what process_pdf_file returns for
\* the payload, ids the values the uuid4 calls yield.
upload_pdf(e, d, ids, chunk_list, filename, fault) ==
    IF filename \notin PdfNames
    THEN [e |-> e, disk |-> d, exc |-> "ValueError"]
    ELSE IF fault.site = "process_pdf_file"
    THEN [e |-> e, disk |-> d, exc |-> "Exception"]
    ELSE LET a == add_all(e, ids, chunk_list, filename, fault, 1)
             s == save_state(a.e, d, fault.site)
         IN IF a.raised
            THEN [e |-> a.e, disk |-> d, exc |-> "Exception"]
            ELSE [e |-> a.e, disk |-> s.disk,
                  exc |-> IF s.raised THEN "Exception" ELSE "none"]

(***************************************************************************)
(* State                                                                   *)
(***************************************************************************)
VARIABLES
    rag,        \* the process-wide engine: index, chunks, metadata
    disk,       \* data/rag_state.faiss and data/rag_state.pkl
    nextId,     \* the number standing for the next uuid4 value
    ingested,   \* history: the fragments completed add_document calls stored,
                \* kept while memory or the fragment file still names their id
    last,       \* history: the last call and how it ended
    pc,         \* concurrent handlers: the statement each thread is at
    loc         \* concurrent handlers: the locals of each thread's handler

vars == <<rag, disk, nextId, ingested, last, pc, loc>>

\* server.py: the async handlers (upload_pdf, query) run on the event loop
\* thread, one at a time; the plain handlers (delete_document, clear, stats,
\* list_documents) run on threads of the worker pool, of which one is
\* modelled: it interleaves with the event loop thread
Loop == "loop"
Workers == {"w1"}
Threads == {Loop} \cup Workers

\* the locals of a thread that runs no handler
Idle ==
    [op |-> "idle", filename |-> "", chunk_list |-> << >>, ids |-> << >>, j |-> 0,
     new_chunks |-> << >>, new_metadata |-> << >>]

SaveFaults == {"write_index", "open"}
LoadFaults == {"read_index", "pickle_load"}
AddFaults == {"encode", "index_add"}

ChunkLists == UNION {[1..n -> Contents] : n \in 0..MaxUpload}

\* the external calls of one upload_pdf of n chunks that may raise
UploadFaults(n) ==
    {NoFault, [site |-> "process_pdf_file", j |-> 0]}
    \cup {[site |-> f, j |-> j] : f \in AddFaults, j \in 1..n}
    \cup {[site |-> f, j |-> 0] : f \in SaveFaults}

\* ret is what load_state returned ("True", "False"), "" for the other calls
Call(op, exc, filename, ret) ==
    [op |-> op, exc |-> exc, filename |-> filename, ret |-> ret]

\* the fragments that positions from..to of engine e hold
Fragments(e, from, to) ==
    {[id |-> e.metadata[i].id, content |-> e.chunks[i],
      filename |-> e.metadata[i].filename] : i \in from..to}

\* the ids engine e and the fragment file of disk d name
IdsOf(e, d) ==
    {e.metadata[i].id : i \in 1..Len(e.metadata)}
    \cup (IF d.pkl.exists
          THEN {pickle_load(d.pkl).metadata[i].id :
                    i \in 1..Len(pickle_load(d.pkl).metadata)}
          ELSE {})

\* uuid.uuid4, n times.  The values are opaque and never repeat: successive
\* numbers stand for them.  A value drawn for a call that stored nothing is
\* seen nowhere, so the counter advances per stored fragment only.
uuid4(n) == [j \in 1..n |-> nextId + j - 1]

\* the bound on the fragments stored in one behaviour leaves room for n more
Room(n) == nextId + n - 1 <= MaxIds

\* the number of fragments a call stored to reach engine e
Stored(e) == Len(e.chunks) - Len(rag.chunks)

\* the fragments a call appended to reach engine e
Added(e) == Fragments(e, Len(rag.chunks) + 1, Len(e.chunks))

\* the history after a call that stored the fragments added and leaves engine
\* e and disk d
Ingested(added, e, d) == {f \in ingested \cup added : f.id \in IdsOf(e, d)}

\* module level of server.py: controller = RAGController(...) on a machine
\* with no saved state
Init ==
    /\ rag = RAGEngine
    /\ disk = [faiss |-> NoFile, pkl |-> NoFile]
    /\ nextId = 1
    /\ ingested = {}
    /\ last = Call("init", "none", "", "")
    /\ pc = [t \in Threads |-> "idle"]
    /\ loc = [t \in Threads |-> Idle]

(***************************************************************************)
(* Operations, one action per call                                         *)
(***************************************************************************)
\* POST /upload-pdf -> RAGController.upload_pdf, with a .pdf file name
UploadPdf ==
    \E filename \in PdfNames, chunk_list \in ChunkLists :
      /\ Room(Len(chunk_list))
      /\ \E fault \in UploadFaults(Len(chunk_list)) :
          \E r \in {upload_pdf(rag, disk, uuid4(Len(chunk_list)), chunk_list,
                               filename, fault)} :
             /\ rag' = r.e
             /\ disk' = r.disk
             /\ nextId' = nextId + Stored(r.e)
             /\ ingested' = Ingested(Added(r.e), r.e, r.disk)
             /\ last' = Call("upload_pdf", r.exc, filename, "")
             /\ UNCHANGED <<pc, loc>>

\* POST /upload-pdf with another file name: rejected before the payload is read
UploadOther ==
    \E filename \in OtherNames :
        \E r \in {upload_pdf(rag, disk, << >>, << >>, filename, NoFault)} :
           /\ rag' = r.e
           /\ disk' = r.disk
           /\ last' = Call("upload_pdf", r.exc, filename, "")
           /\ UNCHANGED <<nextId, ingested, pc, loc>>

\* RAGEngine.add_document called on the engine directly
AddDocument ==
    \E filename \in PdfNames, content \in Contents, fault \in AddFaults \cup {"none"} :
      /\ Room(1)
      /\ \E r \in {add_document(rag, uuid4(1)[1], content, filename, fault)} :
           /\ rag' = r.e
           /\ nextId' = nextId + Stored(r.e)
           /\ ingested' = Ingested(Added(r.e), r.e, disk)
           /\ last' = Call("add_document", IF r.raised THEN "Exception" ELSE "none",
                           filename, "")
           /\ UNCHANGED <<disk, pc, loc>>

\* DELETE /documents/{filename} -> RAGController.delete_document
DeleteDocument ==
    \E filename \in PdfNames :
        \E r \in {delete_document(rag, disk, filename)} :
           /\ rag' = r.e
           /\ disk' = r.disk
           /\ ingested' = Ingested({}, r.e, r.disk)
           /\ last' = Call("delete_document", r.exc, filename, "")
           /\ UNCHANGED <<nextId, pc, loc>>

\* DELETE /clear -> RAGController.clear_all
ClearAll ==
    \E r \in {clear_all(rag, disk)} :
       /\ rag' = r.e
       /\ disk' = r.disk
       /\ ingested' = Ingested({}, r.e, r.disk)
       /\ last' = Call("clear_all", r.exc, "", "")
       /\ UNCHANGED <<nextId, pc, loc>>

\* RAGEngine.save_state called on the engine directly
SaveState ==
    \E fault \in SaveFaults \cup {"none"} :
        \E r \in {save_state(rag, disk, fault)} :
           /\ disk' = r.disk
           /\ ingested' = Ingested({}, rag, r.disk)
           /\ last' = Call("save_state", IF r.raised THEN "Exception" ELSE "none", "", "")
           /\ UNCHANGED <<rag, nextId, pc, loc>>

\* RAGEngine.load_state called on the live engine
LoadState ==
    \E fault \in LoadFaults \cup {"none"} :
        \E r \in {load_state(rag, disk, fault)} :
           /\ rag' = r.e
           /\ ingested' = Ingested({}, r.e, disk)
           /\ last' = Call("load_state", IF r.raised THEN "Exception" ELSE "none", "",
                           IF r.raised THEN "" ELSE IF r.ret THEN "True" ELSE "False")
           /\ UNCHANGED <<disk, nextId, pc, loc>>

\* The process stops, between calls or inside a call that left the disk as it
\* is now, and is started again: RAGController.__init__ builds a fresh engine
\* and loads the saved state.  (A start whose load_state raises leaves no
\* process; the next start is this action.)
Restart ==
    \E r \in {load_state(RAGEngine, disk, "none")} :
       /\ rag' = r.e
       /\ ingested' = Ingested({}, r.e, disk)
       /\ last' = Call("restart", "none", "", IF r.ret THEN "True" ELSE "False")
       /\ UNCHANGED <<disk, nextId, pc, loc>>

\* a read call: its arguments, how it ended, what it returned and the external
\* calls it made
ReadCall(op, args, exc, ret, calls) ==
    [op |-> op, exc |-> exc, filename |-> "", ret |-> ret, args |-> args,
     calls |-> calls]

ReadOps ==
    {"search", "generate_answer", "query_documents", "get_stats",
     "get_document_list", "get_document_details", "get_document_chunks"}

Filters == {NoFilter} \cup {FilterList(names) : names \in FilterLists}

\* RAGEngine.search called on the engine directly
Search ==
    \E query \in Queries, top_k \in TopKs :
        \E results \in search(rag, query, top_k) :
           /\ last' = ReadCall("search", [query |-> query, top_k |-> top_k],
                               "none", results, search_calls(rag))
           /\ UNCHANGED <<rag, disk, nextId, ingested, pc, loc>>

\* RAGEngine.generate_answer called on the engine directly (app.py, line 86)
GenerateAnswer ==
    \E query \in Queries, top_k \in TopKs, fault \in {"none", "encode", "generate"} :
        \E r \in generate_answer(rag, query, top_k, fault) :
           /\ rag' = r.e
           /\ last' = ReadCall("generate_answer",
                               [query |-> query, top_k |-> top_k, fault |-> fault],
                               r.exc, r.ret, r.calls)
           /\ UNCHANGED <<disk, nextId, ingested, pc, loc>>

\* POST /query -> RAGController.query_documents
QueryDocuments ==
    \E query \in Queries, top_k \in {DefaultTopK}, template_type \in TemplateTypes,
       filter_filenames \in Filters, fault \in {"none"} :
        \E r \in query_documents(rag, query, top_k, template_type,
                                 filter_filenames, fault) :
           /\ rag' = r.e
           /\ last' = ReadCall("query_documents",
                               [query |-> query, top_k |-> top_k,
                                template_type |-> template_type,
                                filter_filenames |-> filter_filenames,
                                fault |-> fault, msg |-> r.msg],
                               r.exc, r.ret, r.calls)
           /\ UNCHANGED <<disk, nextId, ingested, pc, loc>>

\* GET /stats -> RAGController.get_stats
GetStats ==
    /\ last' = ReadCall("get_stats", << >>, "none", get_stats(rag), NoCalls)
    /\ UNCHANGED <<rag, disk, nextId, ingested, pc, loc>>

\* GET /documents -> RAGController.get_document_list
GetDocumentList ==
    /\ last' = ReadCall("get_document_list", << >>, "none",
                        get_document_list(rag), NoCalls)
    /\ UNCHANGED <<rag, disk, nextId, ingested, pc, loc>>

\* GET /documents/details -> RAGController.get_document_details
GetDocumentDetails ==
    /\ last' = ReadCall("get_document_details", << >>, "none",
                        get_document_details(rag), NoCalls)
    /\ UNCHANGED <<rag, disk, nextId, ingested, pc, loc>>

\* GET /documents/{filename} -> RAGController.get_document_chunks
GetDocumentChunks ==
    \E filename \in PdfNames :
        \E r \in {get_document_chunks(rag, filename)} :
           /\ rag' = r.e
           /\ last' = ReadCall("get_document_chunks", [filename |-> filename],
                               r.exc, r.ret, NoCalls)
           /\ UNCHANGED <<disk, nextId, ingested, pc, loc>>

Next ==
    \/ UploadPdf
    \/ UploadOther
    \/ AddDocument
    \/ DeleteDocument
    \/ ClearAll
    \/ SaveState
    \/ LoadState
    \/ Restart

Spec == Init /\ [][Next]_vars

\* the calls that ingest, delete and clear, on an engine that starts empty
NextCore ==
    \/ UploadPdf
    \/ UploadOther
    \/ AddDocument
    \/ DeleteDocument
    \/ ClearAll

SpecCore == Init /\ [][NextCore]_vars

\* the calls that mutate the engine in memory together with the read calls
NextRead ==
    \/ AddDocument
    \/ DeleteDocument
    \/ ClearAll
    \/ Search
    \/ GenerateAnswer
    \/ QueryDocuments
    \/ GetStats
    \/ GetDocumentList
    \/ GetDocumentDetails
    \/ GetDocumentChunks

SpecRead == Init /\ [][NextRead]_vars

(***************************************************************************)
(* Concurrent request handlers.  No handler takes a lock; a thread switch  *)
(* can occur between any two statements.  One step is one statement that   *)
(* reads or writes the shared engine.  External calls do not fail here.    *)
(***************************************************************************)
Goto(t, label) == pc' = [pc EXCEPT ![t] = label]

\* the handler of thread t returns
Return(t) ==
    /\ Goto(t, "idle")
    /\ loc' = [loc EXCEPT ![t] = Idle]

\* thread t is between the first and the last write of a mutating handler
MidUpdate(t) ==
    \/ pc[t] \in {"add_chunks", "add_metadata", "save_index", "save_pickle"}
    \/ pc[t] = "add_index" /\ loc[t].j > 1
    \/ pc[t] = "del_metadata"
    \/ pc[t] \in {"clr_chunks", "clr_metadata"}

\* thread t runs a mutating handler
Mutating(t) == loc[t].op \in {"upload_pdf", "delete_document", "clear_all"}

\* thread t runs a read handler: it has read a part of the engine state and
\* its next step reads another part
Reading(t) == loc[t].op = "get_stats"

\* upload_pdf is called: validation, process_pdf_file, then the first chunk
UploadStart(t) ==
    \E filename \in PdfNames, chunk_list \in ChunkLists \ {<< >>} :
       /\ t = Loop
       /\ pc[t] = "idle"
       /\ Room(Len(chunk_list))
       /\ Goto(t, "add_index")
       /\ loc' = [loc EXCEPT ![t] = [Idle EXCEPT !.op = "upload_pdf",
                                                 !.filename = filename,
                                                 !.chunk_list = chunk_list,
                                                 !.ids = uuid4(Len(chunk_list)),
                                                 !.j = 1]]
       /\ nextId' = nextId + Len(chunk_list)
       /\ UNCHANGED <<rag, disk, ingested, last>>

\* add_document: self.index.add(...)
AddIndex(t) ==
    /\ pc[t] = "add_index"
    /\ rag' = [rag EXCEPT !.index = index_add(@, <<encode(loc[t].chunk_list[loc[t].j])>>)]
    /\ Goto(t, "add_chunks")
    /\ UNCHANGED <<disk, nextId, ingested, last, loc>>

\* add_document: self.chunks.append(content)
AddChunks(t) ==
    /\ pc[t] = "add_chunks"
    /\ rag' = [rag EXCEPT !.chunks = Append(@, loc[t].chunk_list[loc[t].j])]
    /\ Goto(t, "add_metadata")
    /\ UNCHANGED <<disk, nextId, ingested, last, loc>>

\* add_document: self.metadata.append({...}); then the next chunk or save_state
AddMetadata(t) ==
    /\ pc[t] = "add_metadata"
    /\ rag' = [rag EXCEPT !.metadata =
                  Append(@, [id |-> loc[t].ids[loc[t].j], filename |-> loc[t].filename])]
    /\ ingested' = ingested \cup {[id |-> loc[t].ids[loc[t].j],
                                   content |-> loc[t].chunk_list[loc[t].j],
                                   filename |-> loc[t].filename]}
    /\ IF loc[t].j < Len(loc[t].chunk_list)
       THEN /\ Goto(t, "add_index")
            /\ loc' = [loc EXCEPT ![t].j = @ + 1]
       ELSE /\ Goto(t, "save_index")
            /\ UNCHANGED loc
    /\ UNCHANGED <<disk, nextId, last>>

\* save_state: faiss.write_index(self.index, ...)
SaveIndex(t) ==
    /\ pc[t] = "save_index"
    /\ disk' = [disk EXCEPT !.faiss = write_index(rag.index)]
    /\ Goto(t, "save_pickle")
    /\ UNCHANGED <<rag, nextId, ingested, last, loc>>

\* save_state: pickle.dump(state, f); upload_pdf returns
SavePickle(t) ==
    /\ pc[t] = "save_pickle"
    /\ disk' = [disk EXCEPT !.pkl = pickle_dump(rag)]
    /\ Return(t)
    /\ UNCHANGED <<rag, nextId, ingested, last>>

\* delete_document is called: the membership test on get_document_list
DeleteStart(t) ==
    \E filename \in PdfNames :
       /\ t \in Workers
       /\ pc[t] = "idle"
       /\ IF filename \in get_document_list(rag)
          THEN /\ Goto(t, "del_filter")
               /\ loc' = [loc EXCEPT ![t] = [Idle EXCEPT !.op = "delete_document",
                                                         !.filename = filename]]
          ELSE UNCHANGED <<pc, loc>>
       /\ UNCHANGED <<rag, disk, nextId, ingested, last>>

\* delete_document: the filter loop over zip(metadata, chunks)
DeleteFilter(t) ==
    /\ pc[t] = "del_filter"
    /\ loc' = [loc EXCEPT ![t].new_chunks = new_chunks(rag, loc[t].filename),
                          ![t].new_metadata = new_metadata(rag, loc[t].filename)]
    /\ Goto(t, "del_chunks")
    /\ UNCHANGED <<rag, disk, nextId, ingested, last>>

\* delete_document: self.rag.chunks = new_chunks
DeleteChunks(t) ==
    /\ pc[t] = "del_chunks"
    /\ rag' = [rag EXCEPT !.chunks = loc[t].new_chunks]
    /\ Goto(t, "del_metadata")
    /\ UNCHANGED <<disk, nextId, ingested, last, loc>>

\* delete_document: self.rag.metadata = new_metadata
DeleteMetadata(t) ==
    /\ pc[t] = "del_metadata"
    /\ rag' = [rag EXCEPT !.metadata = loc[t].new_metadata]
    /\ Goto(t, "del_index")
    /\ UNCHANGED <<disk, nextId, ingested, last, loc>>

\* delete_document: faiss.IndexFlatL2(...) raises NameError
DeleteIndex(t) ==
    /\ pc[t] = "del_index"
    /\ Return(t)
    /\ UNCHANGED <<rag, disk, nextId, ingested, last>>

\* clear_all is called; clear: self.index = faiss.IndexFlatL2(self.dimension)
ClearIndex(t) ==
    /\ t \in Workers
    /\ pc[t] = "idle"
    /\ rag' = [rag EXCEPT !.index = IndexFlatL2(Dimension)]
    /\ Goto(t, "clr_chunks")
    /\ loc' = [loc EXCEPT ![t] = [Idle EXCEPT !.op = "clear_all"]]
    /\ UNCHANGED <<disk, nextId, ingested, last>>

\* clear: self.chunks = []
ClearChunks(t) ==
    /\ pc[t] = "clr_chunks"
    /\ rag' = [rag EXCEPT !.chunks = << >>]
    /\ Goto(t, "clr_metadata")
    /\ UNCHANGED <<disk, nextId, ingested, last, loc>>

\* clear: self.metadata = []; clear_all returns
ClearMetadata(t) ==
    /\ pc[t] = "clr_metadata"
    /\ rag' = [rag EXCEPT !.metadata = << >>]
    /\ Return(t)
    /\ UNCHANGED <<disk, nextId, ingested, last>>

\* get_stats is called: len(self.rag.chunks)
StatsChunks(t) ==
    /\ t \in Workers
    /\ pc[t] = "idle"
    /\ Goto(t, "st_docs")
    /\ loc' = [loc EXCEPT ![t] = [Idle EXCEPT !.op = "get_stats"]]
    /\ UNCHANGED <<rag, disk, nextId, ingested, last>>

\* get_stats: len(set([m['filename'] for m in self.rag.metadata]))
StatsDocuments(t) ==
    /\ pc[t] = "st_docs"
    /\ Goto(t, "st_index")
    /\ UNCHANGED <<rag, disk, nextId, ingested, last, loc>>

\* get_stats: self.rag.index.ntotal; get_stats returns
StatsIndex(t) ==
    /\ pc[t] = "st_index"
    /\ Return(t)
    /\ UNCHANGED <<rag, disk, nextId, ingested, last>>

NextConc ==
    \E t \in Threads :
       \/ UploadStart(t)
       \/ AddIndex(t)
       \/ AddChunks(t)
       \/ AddMetadata(t)
       \/ SaveIndex(t)
       \/ SavePickle(t)
       \/ DeleteStart(t)
       \/ DeleteFilter(t)
       \/ DeleteChunks(t)
       \/ DeleteMetadata(t)
       \/ DeleteIndex(t)
       \/ ClearIndex(t)
       \/ ClearChunks(t)
       \/ ClearMetadata(t)
       \/ StatsChunks(t)
       \/ StatsDocuments(t)
       \/ StatsIndex(t)

SpecConc == Init /\ [][NextConc]_vars

\* the document whose fragments are added while another one is deleted
Added_B == "B.pdf"

\* delete_document is called with another name than Added_B
DeleteOther(t) == DeleteStart(t) /\ loc'[t].filename # Added_B

\* upload_pdf on the event loop thread interleaved with delete_document, of
\* another document than Added_B, on a worker thread
NextLost ==
    \E t \in Threads :
       \/ UploadStart(t)
       \/ AddIndex(t)
       \/ AddChunks(t)
       \/ AddMetadata(t)
       \/ SaveIndex(t)
       \/ SavePickle(t)
       \/ DeleteOther(t)
       \/ DeleteFilter(t)
       \/ DeleteChunks(t)
       \/ DeleteMetadata(t)
       \/ DeleteIndex(t)

SpecLost == Init /\ [][NextLost]_vars

(***************************************************************************)
(* Properties                                                              *)
(***************************************************************************)
\* the last call was delete_document of a stored document
DeletedStored == last.op = "delete_document" /\ last.exc # "ValueError"

\* C1: after every call of a sequence of add_document / upload_pdf,
\* delete_document and clear on an engine that starts empty, the index size
\* equals the number of stored fragments, as get_stats reports them.
C1_SizeInvariant == get_stats(rag).index_size = get_stats(rag).total_chunks

\* C2: at every position i of the store the index holds the embedding of
\* chunks[i] and metadata[i] is the metadata ingested with chunks[i]; every
\* search result's id, filename and content are those of one ingested fragment.
C2_PositionalAlignment ==
    /\ \A i \in 1..Len(rag.chunks) :
          /\ i <= ntotal(rag.index)
          /\ rag.index.xb[i] = encode(rag.chunks[i])
          /\ i <= Len(rag.metadata)
          /\ [id |-> rag.metadata[i].id, content |-> rag.chunks[i],
              filename |-> rag.metadata[i].filename] \in ingested
    /\ \A q \in Queries, k \in TopKs :
          \A res \in search(rag, q, k) :
             \A j \in 1..Len(res) :
                [id |-> res[j].id, content |-> res[j].content,
                 filename |-> res[j].filename] \in ingested

\* position i of engine e holds a fragment of another document than name
Kept(e, name, i) == e.metadata[i].filename # name

C4_AtomicDelete ==
    [][last'.op = "delete_document" =>
        \/ rag' = rag
        \/ /\ last'.exc = "none"
           /\ \A i \in 1..Len(rag'.chunks) : rag'.metadata[i].filename # last'.filename
           /\ rag'.index.xb = [i \in 1..Len(rag'.chunks) |-> encode(rag'.chunks[i])]]_vars

\* C5: an add_document call that fails while embedding the content or while
\* adding the vector stores neither the chunk nor its metadata: chunks,
\* metadata and the index are as before the call.
C5_NoPartialAppend ==
    [][(last'.op = "add_document" /\ last'.exc = "Exception") => rag' = rag]_vars

\* C5 witness: add_document failed on an engine that holds a fragment
C5_Witness ==
    last.op = "add_document" /\ last.exc = "Exception" /\ Len(rag.chunks) >= 1

\* what a fresh engine holds after load_state from the disk as it is
Reloaded == load_state(RAGEngine, disk, "none")

\* C6: after every facade mutating operation (upload_pdf, delete_document,
\* clear_all) that returns successfully, a restart reconstructs exactly the
\* chunks, metadata and index in memory.
C6_SaveOnMutation ==
    (last.op \in {"upload_pdf", "delete_document", "clear_all"} /\ last.exc = "none")
        => Reloaded.e = rag

\* C7: save_state followed by load_state into a fresh engine yields the same
\* chunks, the same metadata and the same index size as the saved engine.
C7_RoundTrip ==
    (last.op = "save_state" /\ last.exc = "none") =>
        /\ Reloaded.ret
        /\ Reloaded.e.chunks = rag.chunks
        /\ Reloaded.e.metadata = rag.metadata
        /\ ntotal(Reloaded.e.index) = ntotal(rag.index)

\* C7 witness: a store with fragments of two documents was saved
C7_Witness ==
    /\ last.op = "save_state" /\ last.exc = "none"
    /\ Cardinality(get_document_list(rag)) = 2

\* the two artifacts exist and hold different numbers of vectors and fragments
Mismatched(d) ==
    /\ d.pkl.exists /\ d.faiss.exists
    /\ ntotal(read_index(d.faiss)) # Len(pickle_load(d.pkl).chunks)

\* C8: when both artifacts exist and their counts differ, load does not
\* return success and the engine does not hold the misaligned pair; load
\* never returns success with index size different from fragment count.
C8_CorruptStateDetection ==
    /\ (last.op \in {"load_state", "restart"} /\ Mismatched(disk)) =>
          /\ last.ret # "True"
          /\ ntotal(rag.index) = Len(rag.chunks)
    /\ (last.op \in {"load_state", "restart"} /\ last.ret = "True") =>
          ntotal(rag.index) = Len(rag.chunks)

\* C9: a save_state that fails, alone or inside upload_pdf, leaves the pair of
\* artifacts on disk as the previous save left it.
C9_AllOrNothingSave ==
    [][(last'.op \in {"save_state", "upload_pdf"} /\ last'.exc = "Exception")
          => disk' = disk]_vars

\* C10: under concurrent request handlers at most one mutating operation
\* (upload_pdf, delete_document, clear) is in flight, and no read (get_stats)
\* executes between the first and the last state update of a mutating
\* operation.
C10_MutualExclusion ==
    /\ Cardinality({t \in Threads : Mutating(t)}) <= 1
    /\ \A t, u \in Threads : ~(Reading(t) /\ MidUpdate(u))

\* filter list f names a document of which engine e stores no fragment
UnknownName(e, f) ==
    f.given /\ \E i \in 1..Len(f.names) : f.names[i] \notin get_document_list(e)

\* filter list f is a non-empty allow-list of documents engine e stores
KnownNames(e, f) ==
    /\ f.given /\ f.names # << >>
    /\ \A i \in 1..Len(f.names) : f.names[i] \in get_document_list(e)

\* C11: a query with a non-empty allow-list of stored names completes, and
\* every source it uses is the content of a stored fragment whose filename is
\* in the allow-list, at most top_k of them.
C11_FilterCorrectness ==
    (last.op = "query_documents" /\ KnownNames(rag, last.args.filter_filenames)) =>
        /\ last.exc = "none"
        /\ Len(last.ret.sources) <= last.args.top_k
        /\ \A j \in 1..Len(last.ret.sources) :
              \E i \in 1..Len(rag.chunks) :
                 /\ rag.chunks[i] = last.ret.sources[j].head.of
                 /\ \E n \in 1..Len(last.args.filter_filenames.names) :
                       rag.metadata[i].filename = last.args.filter_filenames.names[n]

\* C12: a query whose allow-list holds a name of no stored fragment fails with
\* ValueError (the error the server reports as not found; "Documents not
\* found" when the store holds fragments), with no encode, index search or
\* generate call made, and leaves the engine as it was.
C12_UnknownFilterName ==
    [][(last'.op = "query_documents" /\ UnknownName(rag, last'.args.filter_filenames)) =>
          /\ last'.exc = "ValueError"
          /\ rag.chunks # << >> => last'.args.msg = "Documents not found"
          /\ last'.calls = NoCalls
          /\ rag' = rag]_vars

\* C12 witness: a query on a store with fragments named a document it lacks
C12_Witness ==
    /\ last.op = "query_documents"
    /\ rag.chunks # << >>
    /\ UnknownName(rag, last.args.filter_filenames)
    /\ last.exc = "ValueError"

\* C13: a search on an engine that holds no fragments raises no error and
\* returns the empty sequence, through RAGEngine.search and through
\* query_documents, whose result then has no sources.
C13_EmptyStoreSearch ==
    /\ (last.op = "search" /\ rag.chunks = << >>) =>
          last.exc = "none" /\ last.ret = << >>
    /\ (last.op = "query_documents" /\ rag.chunks = << >>
            /\ ~UnknownName(rag, last.args.filter_filenames)) =>
          last.exc = "none" /\ last.ret.sources = << >>

\* C14: a generate_answer call whose search yields nothing returns the fixed
\* answer with no sources and calls ollama.generate not at all; a call whose
\* search yields results calls it exactly once.
C14_NoGenerationOnEmptyContext ==
    (last.op = "generate_answer" /\ last.exc = "none") =>
        \E results \in search(rag, last.args.query, last.args.top_k) :
           IF results = << >>
           THEN /\ last.ret.answer.text = "No relevant information found in the documents."
                /\ last.ret.sources = << >>
                /\ last.calls.generate = 0
           ELSE /\ Len(last.ret.sources) = Len(results)
                /\ last.calls.generate = 1

\* C14 witness: generate_answer found nothing in a store that holds fragments
C14_Witness ==
    /\ last.op = "generate_answer" /\ last.exc = "none"
    /\ rag.chunks # << >>
    /\ last.ret.sources = << >>

\* C15: when ollama.generate raises, generate_answer returns normally: the
\* answer is the error text, sources and num_sources are those of the
\* retrieved results, and chunks, metadata and index are unchanged.
C15_GenerationFailureContained ==
    [][(/\ last'.op = "generate_answer"
        /\ last'.args.fault = "generate"
        /\ last'.calls.generate = 1) =>
          /\ last'.exc = "none"
          /\ last'.ret.answer = GenerationError
          /\ \E results \in search(rag, last'.args.query, last'.args.top_k) :
                /\ results # << >>
                /\ last'.ret.num_sources = Len(results)
                /\ last'.ret.sources =
                      [i \in 1..Len(results) |-> source_preview(results[i].content)]
          /\ rag' = rag]_vars

\* C15 witness: ollama.generate raised in a call that had retrieved results
C15_Witness ==
    /\ last.op = "generate_answer"
    /\ last.args.fault = "generate"
    /\ last.calls.generate = 1
    /\ last.exc = "none"

\* C16: delete_document of a name no stored fragment has fails with
\* ValueError and leaves chunks, metadata, the index and the disk as they were.
C16_DeleteUnknown ==
    [][(last'.op = "delete_document" /\ last'.filename \notin get_document_list(rag)) =>
          /\ last'.exc = "ValueError"
          /\ rag' = rag
          /\ disk' = disk]_vars

\* C16 witness: an unknown name was deleted from a saved store with fragments
C16_Witness ==
    /\ last.op = "delete_document" /\ last.exc = "ValueError"
    /\ rag.chunks # << >>
    /\ disk.pkl.exists

\* C17: clear leaves no chunks, no metadata and an empty index of the
\* dimension the index had before; a clear that follows a clear changes
\* nothing.
C17_ClearResets ==
    [][last'.op = "clear_all" =>
          /\ rag'.chunks = << >>
          /\ rag'.metadata = << >>
          /\ ntotal(rag'.index) = 0
          /\ rag'.index.d = rag.index.d
          /\ last.op = "clear_all" => rag' = rag]_vars

\* C17 witness: the engine was cleared after fragments had been saved
C17_Witness ==
    /\ last.op = "clear_all"
    /\ disk.pkl.exists
    /\ pickle_load(disk.pkl).chunks # << >>

\* C18: search, generate_answer, query_documents, get_stats,
\* get_document_list, get_document_details and get_document_chunks leave
\* chunks, metadata, the index and the disk unchanged, also when they raise.
C18_ReadsArePure ==
    [][last'.op \in ReadOps => rag' = rag /\ disk' = disk]_vars

\* C18 witness: a query failed on an engine whose chunk list is empty and
\* whose index still holds vectors
C18_Witness ==
    /\ last.op = "query_documents" /\ last.exc = "ValueError"
    /\ rag.chunks = << >>
    /\ ntotal(rag.index) >= 1

\* C19: on a store with fragments, a query with an unknown template_type
\* completes, selects the default template and returns what the same query
\* returns with template_type "default".
C19_UnknownTemplateFallback ==
    (/\ last.op = "query_documents"
     /\ rag.chunks # << >>
     /\ ~last.args.filter_filenames.given
     /\ last.args.template_type \notin KnownTemplateTypes) =>
        /\ TemplateManager_get(last.args.template_type) = TemplateManager_get("default")
        /\ last.exc = "none"
        /\ last.ret \in {r.ret : r \in query_documents(rag, last.args.query, last.args.top_k,
                                                       "default", NoFilter,
                                                       last.args.fault)}

\* C20: every result of the answer path has the fields answer, sources and
\* num_sources, and num_sources is the length of sources.
C20_ResultShape ==
    (last.op \in {"generate_answer", "query_documents"} /\ last.exc = "none") =>
        /\ {"answer", "sources", "num_sources"} \subseteq DOMAIN last.ret
        /\ last.ret.num_sources = Len(last.ret.sources)

\* C21: an upload_pdf that fails, while adding one of its chunks or while
\* saving, leaves chunks, metadata and the index as they were before the
\* upload began.
C21_AtomicUpload ==
    [][(last'.op = "upload_pdf" /\ last'.exc = "Exception") => rag' = rag]_vars

\* fragment f is stored in engine e: its content and its metadata at one
\* position, and its vector at that position of the index
Present(e, f) ==
    \E i \in 1..Len(e.chunks) :
       /\ e.chunks[i] = f.content
       /\ i <= Len(e.metadata)
       /\ e.metadata[i] = [id |-> f.id, filename |-> f.filename]
       /\ i <= ntotal(e.index)
       /\ e.index.xb[i] = encode(f.content)

\* no handler is running
AllReturned == \A t \in Threads : pc[t] = "idle"

\* C22: once the handlers that added fragments of B and deleted another
\* document have returned, every fragment of B that was added is stored with
\* its own metadata at the same position and its vector in the index, and
\* index size, len(chunks) and len(metadata) are equal.
C22_NoLostUpdate ==
    (AllReturned /\ \E f \in ingested : f.filename = Added_B) =>
        /\ \A f \in ingested : f.filename = Added_B => Present(rag, f)
        /\ ntotal(rag.index) = Len(rag.chunks)
        /\ Len(rag.chunks) = Len(rag.metadata)

\* the sum of the chunk_count values of the first n entries of details
RECURSIVE chunk_count_sum(_, _)
chunk_count_sum(details, n) ==
    IF n = 0 THEN 0 ELSE details[n].chunk_count + chunk_count_sum(details, n - 1)

\* C23: in every state the sequential calls reach, total_documents of
\* get_stats, the number of names of get_document_list and the number of
\* entries of get_document_details are equal, the chunk_count values sum to
\* total_chunks, and get_document_chunks(name) succeeds with the chunk_count
\* of the entry of name exactly when name is in get_document_list and fails
\* with ValueError otherwise.
C23_ViewsAgree ==
    LET details == get_document_details(rag)
    IN /\ get_stats(rag).total_documents = Cardinality(get_document_list(rag))
       /\ Len(details) = Cardinality(get_document_list(rag))
       /\ chunk_count_sum(details, Len(details)) = get_stats(rag).total_chunks
       /\ \A name \in PdfNames \cup OtherNames :
             IF name \in get_document_list(rag)
             THEN /\ get_document_chunks(rag, name).exc = "none"
                  /\ \E k \in 1..Len(details) :
                        /\ details[k].filename = name
                        /\ details[k].chunk_count =
                               get_document_chunks(rag, name).ret.chunk_count
             ELSE get_document_chunks(rag, name).exc = "ValueError"

\* C23 witness: one document with two fragments is stored
C23_Witness ==
    /\ Len(get_document_details(rag)) = 1
    /\ get_stats(rag).total_chunks = 2

\* C24: in every state the sequential calls reach, calls that fail partway
\* included, len(chunks) equals len(metadata).
C24_ListsParallel == Len(rag.chunks) = Len(rag.metadata)

\* C24 witness: a call failed and left an index whose size differs from the
\* number of chunks
C24_Witness ==
    /\ last.exc # "none"
    /\ ntotal(rag.index) # Len(rag.chunks)
    /\ Len(rag.chunks) >= 1

====
